---- MODULE Spec2Model ----
(***************************************************************************)
(* Model of src/main.py: the POST /pipeline endpoint and the four-stage    *)
(* pipeline behind it (fetch_uuids, analyze_with_ai, store_results,        *)
(* send_notification, run_pipeline, pipeline_endpoint).                    *)
(*                                                                         *)
(* Each request is handled by one worker thread (FastAPI runs a plain      *)
(* `def` endpoint in its thread pool), so requests are processes that      *)
(* interleave at every call to the outside world: one HTTP fetch, one      *)
(* classifier call, and each file-system call of store_results.  The only  *)
(* state the requests share is the store file and the wall clock.          *)
(*                                                                         *)
(* Environment assumptions, stated once:                                   *)
(*  - print() to the process's stdout succeeds.  The orchestrator's own    *)
(*    prints (lines 105-150) are unguarded and share that stream with the  *)
(*    print of send_notification, so the stream is taken to work.          *)
(*  - The classifier's `analysis` and `sentiment` values are JSON strings. *)
(*  - Strings that the code builds by formatting are tuples of their       *)
(*    parts: f"Analysis unavailable: {e}" is <<"Analysis unavailable: ",   *)
(*    str(e)>>, isoformat() + "Z" is <<instant, "Z">>.                     *)
(***************************************************************************)
EXTENDS Naturals, Sequences, FiniteSets, TLC

\* ------------------------------------------------------------------ bounds

\* Longest store file found at start-up (records left by earlier runs).
MaxPrior == 2

\* ------------------------------------------------------- program constants

\* run_pipeline: fetch_uuids(3)
FetchCount == 3

\* pipeline_endpoint: the only accepted source
REQUIRED_SOURCE == "HTTPBin UUID"

\* pipeline_endpoint: HTTPException(status_code=400, ...)
BadRequest == 400

\* FastAPI's status of a handler that returns normally
StatusOK == 200

\* ------------------------------------------------------------ input domains

Procs == {1, 2}

Emails == {"a@b.com", ""}

Sources == {"HTTPBin UUID", "httpbin uuid", ""}

\* What one GET https://httpbin.org/uuid can deliver.
UUIDs == {"u1", "u2"}

\* The identifier the source hands to request p when requests must be told apart.
uuidOf(p) == IF p = 1 THEN "u1" ELSE "u2"

\* Outcomes of a call that can raise (network, file system).
IOOutcomes == {"ok", "error"}

\* What the chat-completion call can do: raise, or return a text that is or
\* is not JSON; a JSON object carries some of the keys.
Answer(raises, isjson, keys, sentiment) ==
    [raises |-> raises, isjson |-> isjson, keys |-> keys,
     analysis |-> <<"a two sentence analysis">>, sentiment |-> sentiment]

AuthFailure == Answer(TRUE, FALSE, {}, "")
NotJson == Answer(FALSE, FALSE, {}, "")
NoAnalysisKey == Answer(FALSE, TRUE, {"sentiment"}, "balanced")
NoSentimentKey == Answer(FALSE, TRUE, {"analysis"}, "")
Optimistic == Answer(FALSE, TRUE, {"analysis", "sentiment"}, "optimistic")
Positive == Answer(FALSE, TRUE, {"analysis", "sentiment"}, "positive")

ClassifierAnswers ==
    {AuthFailure, NotJson, NoAnalysisKey, NoSentimentKey, Optimistic, Positive}

\* -------------------------------------------------------------------- state

VARIABLES
    pc,                 \* where each request's thread is
    request,            \* the body of the POST
    uuids,              \* fetch_uuids: the identifiers fetched so far
    i,                  \* fetch_uuids: the loop counter
    idx,                \* run_pipeline: the position in enumerate(uuids, 1)
    results,            \* run_pipeline: results
    errors,             \* run_pipeline: errors
    existing_data,      \* store_results: existing_data
    storage_success,    \* run_pipeline: storage_success
    notification_sent,  \* run_pipeline: notification_sent
    response,           \* what the HTTP layer answers
    file,               \* pipeline_results.json
    now,                \* the clock datetime.utcnow() reads
    file0,              \* history: the store file at start-up
    calls,              \* history: the component calls of each request, in order
    asked,              \* history: the classifier's answer for each identifier
    notified,           \* history: the arguments of send_notification
    store_step          \* history: how far the store_results call got

vars == <<pc, request, uuids, i, idx, results, errors, existing_data,
          storage_success, notification_sent, response, file, now,
          file0, calls, asked, notified, store_step>>

\* --------------------------------------------------------- pure functions

\* datetime.utcnow().isoformat() + "Z"
IsoZ(t) == <<t, "Z">>

\* str(e) of the exception analyze_with_ai catches
ErrorText(a) ==
    IF a.raises THEN "Incorrect API key provided"
    ELSE IF ~a.isjson THEN "Expecting value: line 1 column 1 (char 0)"
    ELSE IF "analysis" \notin a.keys THEN "'analysis'"
    ELSE "'sentiment'"

\* Variant: the except clause lets the exception through.
analyze_with_ai_uncaught(a) ==
    IF a.raises \/ ~a.isjson
          \/ "analysis" \notin a.keys \/ "sentiment" \notin a.keys
    THEN [raised |-> TRUE, message |-> ErrorText(a),
          analysis |-> <<>>, sentiment |-> ""]
    ELSE [raised |-> FALSE, message |-> "",
          analysis |-> a.analysis, sentiment |-> a.sentiment]

\* analyze_with_ai: the pair it returns; raised tells an exception that
\* escapes to the caller (none does: line 58 catches every Exception).
analyze_with_ai(a) ==
    IF a.raises \/ ~a.isjson
          \/ "analysis" \notin a.keys \/ "sentiment" \notin a.keys
    THEN [raised |-> FALSE, message |-> "",
          analysis |-> <<"Analysis unavailable: ", ErrorText(a)>>,
          sentiment |-> "neutral"]
    ELSE [raised |-> FALSE, message |-> "",
          analysis |-> a.analysis, sentiment |-> a.sentiment]

\* Variant: the record is created as already stored.
NewResultStored(uuid, r, t) ==
    [original |-> uuid, analysis |-> r.analysis, sentiment |-> r.sentiment,
     stored |-> TRUE, timestamp |-> IsoZ(t)]

\* run_pipeline, lines 122-128: the result dictionary of one identifier
NewResult(uuid, r, t) ==
    [original |-> uuid, analysis |-> r.analysis, sentiment |-> r.sentiment,
     stored |-> FALSE, timestamp |-> IsoZ(t)]

\* json.dump of one record: every value becomes JSON text
json_dumps_record(r) ==
    [original |-> <<"string", r.original>>,
     analysis |-> <<"string", r.analysis>>,
     sentiment |-> <<"string", r.sentiment>>,
     stored |-> <<"literal", IF r.stored THEN "true" ELSE "false">>,
     timestamp |-> <<"string", r.timestamp>>]

\* json.load of one record
json_loads_record(o) ==
    [original |-> o.original[2],
     analysis |-> o.analysis[2],
     sentiment |-> o.sentiment[2],
     stored |-> (o.stored[2] = "true"),
     timestamp |-> o.timestamp[2]]

json_dump(data) == [k \in 1..Len(data) |-> json_dumps_record(data[k])]

json_load(doc) == [k \in 1..Len(doc) |-> json_loads_record(doc[k])]

\* The store file: absent, present with a JSON array of records, or present
\* with text json.load does not turn into a list: empty (right after the
\* truncating open) or garbage (cut short by a failed write, or two writers'
\* bytes laid over each other).
NoFile == [kind |-> "absent", doc |-> <<>>]
EmptyFile == [kind |-> "empty", doc |-> <<>>]
GarbageFile == [kind |-> "garbage", doc |-> <<>>]
JsonFile(doc) == [kind |-> "array", doc |-> doc]

\* A record an earlier run left in the store.
PriorRecord(k) ==
    [original |-> "u0", analysis |-> <<"an earlier analysis">>,
     sentiment |-> "balanced", stored |-> FALSE, timestamp |-> IsoZ(k - 1)]

PriorFile(n) == JsonFile(json_dump([k \in 1..n |-> PriorRecord(k)]))

\* send_notification, lines 84-96: formats the message and prints it.  With
\* a working stdout nothing in the try block raises, and it returns True.
send_notification(email, success_count, error_count) == TRUE

\* Variant: the comparison ignores case.
SourceRejectedIgnoringCase(source) ==
    source \notin {"HTTPBin UUID", "httpbin uuid"}

\* pipeline_endpoint, line 168
SourceRejected(source) == source # REQUIRED_SOURCE

\* Variant: the new result goes to the front.
AppendResultFirst(rs, result) == <<result>> \o rs

\* run_pipeline, line 129: results.append(result)
AppendResult(rs, result) == Append(rs, result)

\* Variant: the new records replace what was read.
ExtendForgetting(existing, rs) == rs

\* store_results, line 72: existing_data.extend(results)
Extend(existing, rs) == existing \o rs

\* Variant: only the first result is marked.
MarkFirstStored(rs, flag) ==
    [k \in 1..Len(rs) |-> IF k = 1 THEN [rs[k] EXCEPT !.stored = flag] ELSE rs[k]]

\* run_pipeline, lines 141-142
MarkStored(rs, flag) == [k \in 1..Len(rs) |-> [rs[k] EXCEPT !.stored = flag]]

\* Variant: the abort answer carries the time like the full one.
AbortResponseStamped(errs) ==
    [items |-> <<>>, notificationSent |-> FALSE, processedAt |-> IsoZ(0),
     errors |-> errs]

\* run_pipeline, line 112
AbortResponse(errs) ==
    [items |-> <<>>, notificationSent |-> FALSE, errors |-> errs]

\* run_pipeline, lines 152-157
FullResponse(rs, sent, t, errs) ==
    [items |-> rs, notificationSent |-> sent, processedAt |-> IsoZ(t),
     errors |-> errs]

NoResponse == [status |-> 0, body |-> <<>>]

\* --------------------------------------------------------------------- Init

InitFiles == {NoFile, GarbageFile} \cup {PriorFile(n) : n \in 0..MaxPrior}

Init ==
    /\ pc = [p \in Procs |-> "idle"]
    /\ request = [p \in Procs |-> [email |-> "", source |-> ""]]
    /\ uuids = [p \in Procs |-> <<>>]
    /\ i = [p \in Procs |-> 0]
    /\ idx = [p \in Procs |-> 0]
    /\ results = [p \in Procs |-> <<>>]
    /\ errors = [p \in Procs |-> <<>>]
    /\ existing_data = [p \in Procs |-> <<>>]
    /\ storage_success = [p \in Procs |-> FALSE]
    /\ notification_sent = [p \in Procs |-> FALSE]
    /\ response = [p \in Procs |-> NoResponse]
    /\ file \in InitFiles
    /\ file0 = file
    /\ now = Len(file.doc)
    /\ calls = [p \in Procs |-> <<>>]
    /\ asked = [p \in Procs |-> <<>>]
    /\ notified = [p \in Procs |-> <<>>]
    /\ store_step = [p \in Procs |-> "none"]

\* ------------------------------------------------------------------ actions

\* pipeline_endpoint, lines 166-174: validate the source, start the pipeline.
pipeline_endpoint(p, emails) ==
    /\ pc[p] = "idle"
    /\ \E email \in emails, source \in Sources :
        /\ request' = [request EXCEPT ![p] = [email |-> email, source |-> source]]
        /\ IF SourceRejected(source)
           THEN /\ response' = [response EXCEPT ![p] =
                       [status |-> BadRequest,
                        body |-> [detail |-> "Source must be 'HTTPBin UUID'"]]]
                /\ pc' = [pc EXCEPT ![p] = "done"]
                /\ calls' = calls
           ELSE /\ response' = response
                /\ pc' = [pc EXCEPT ![p] = "fetch"]
                /\ calls' = [calls EXCEPT ![p] = Append(@, "fetch")]
    /\ UNCHANGED <<uuids, i, idx, results, errors, existing_data,
                   storage_success, notification_sent, file, now, file0,
                   asked, notified, store_step>>

\* fetch_uuids, lines 26-33: one pass of the loop.
fetch_one(p, ids) ==
    /\ pc[p] = "fetch"
    /\ i[p] < FetchCount
    /\ \/ \E u \in ids : uuids' = [uuids EXCEPT ![p] = Append(@, u)]
       \/ uuids' = uuids
    /\ i' = [i EXCEPT ![p] = @ + 1]
    /\ UNCHANGED <<pc, request, idx, results, errors, existing_data,
                   storage_success, notification_sent, response, file, now,
                   file0, calls, asked, notified, store_step>>

\* Variant: the check for an empty fetch is missing.
fetch_return_unchecked(p) ==
    /\ pc[p] = "fetch"
    /\ i[p] = FetchCount
    /\ pc' = [pc EXCEPT ![p] = "classify"]
    /\ idx' = [idx EXCEPT ![p] = 1]
    /\ UNCHANGED <<errors, response, request, uuids, i, results,
                   existing_data, storage_success, notification_sent, file,
                   now, file0, calls, asked, notified, store_step>>

\* run_pipeline, lines 109-113: fetch_uuids returned.
fetch_return(p) ==
    /\ pc[p] = "fetch"
    /\ i[p] = FetchCount
    /\ IF uuids[p] = <<>>
       THEN /\ errors' = [errors EXCEPT ![p] = Append(@, "Failed to fetch any UUIDs")]
            /\ response' = [response EXCEPT ![p] =
                   [status |-> StatusOK, body |-> AbortResponse(errors'[p])]]
            /\ pc' = [pc EXCEPT ![p] = "done"]
            /\ idx' = idx
       ELSE /\ pc' = [pc EXCEPT ![p] = "classify"]
            /\ idx' = [idx EXCEPT ![p] = 1]
            /\ UNCHANGED <<errors, response>>
    /\ UNCHANGED <<request, uuids, i, results, existing_data, storage_success,
                   notification_sent, file, now, file0, calls, asked, notified,
                   store_step>>

\* run_pipeline, lines 117-134: one pass of the loop over the identifiers.
classify_one(p, answers) ==
    /\ pc[p] = "classify"
    /\ idx[p] <= Len(uuids[p])
    /\ \E a \in answers :
        LET uuid == uuids[p][idx[p]]
            r == analyze_with_ai(a)
        IN  /\ asked' = [asked EXCEPT ![p] = Append(@, a)]
            /\ IF r.raised
               THEN /\ errors' = [errors EXCEPT ![p] =
                           Append(@, <<"Failed to process UUID ", uuid, ": ", r.message>>)]
                    /\ UNCHANGED <<results, now>>
               ELSE /\ results' = [results EXCEPT ![p] =
                           AppendResult(@, NewResult(uuid, r, now))]
                    /\ now' = now + 1
                    /\ errors' = errors
    /\ idx' = [idx EXCEPT ![p] = @ + 1]
    /\ calls' = [calls EXCEPT ![p] = Append(@, "classify")]
    /\ UNCHANGED <<pc, request, uuids, i, existing_data, storage_success,
                   notification_sent, response, file, file0, notified,
                   store_step>>

\* store_results returns False from its except clause (lines 78-80).
StoreFails(p, step) ==
    /\ storage_success' = [storage_success EXCEPT ![p] = FALSE]
    /\ store_step' = [store_step EXCEPT ![p] = step]
    /\ pc' = [pc EXCEPT ![p] = "mark"]

\* run_pipeline line 140 and store_results lines 64-72: the loop is over,
\* store_results is called and reads the file.
store_read(p, ios) ==
    /\ pc[p] = "classify"
    /\ idx[p] > Len(uuids[p])
    /\ calls' = [calls EXCEPT ![p] = Append(@, "store")]
    /\ \E io \in ios :
        IF file.kind = "absent"
        THEN /\ existing_data' = [existing_data EXCEPT ![p] = Extend(<<>>, results[p])]
             /\ store_step' = [store_step EXCEPT ![p] = "read"]
             /\ pc' = [pc EXCEPT ![p] = "store_open"]
             /\ UNCHANGED storage_success
        ELSE IF io = "error" \/ file.kind # "array"
        THEN /\ StoreFails(p, "read_error")
             /\ UNCHANGED existing_data
        ELSE /\ existing_data' = [existing_data EXCEPT ![p] =
                    Extend(json_load(file.doc), results[p])]
             /\ store_step' = [store_step EXCEPT ![p] = "read"]
             /\ pc' = [pc EXCEPT ![p] = "store_open"]
             /\ UNCHANGED storage_success
    /\ UNCHANGED <<request, uuids, i, idx, results, errors, notification_sent,
                   response, file, now, file0, asked, notified>>

\* store_results line 74: open(filename, 'w') truncates the file.
store_open(p, ios) ==
    /\ pc[p] = "store_open"
    /\ \E io \in ios :
        IF io = "error"
        THEN /\ StoreFails(p, "open_error")
             /\ file' = file
        ELSE /\ file' = EmptyFile
             /\ store_step' = [store_step EXCEPT ![p] = "opened"]
             /\ pc' = [pc EXCEPT ![p] = "store_dump"]
             /\ UNCHANGED storage_success
    /\ UNCHANGED <<request, uuids, i, idx, results, errors, existing_data,
                   notification_sent, response, now, file0, calls, asked,
                   notified>>

\* Variant: the bytes land behind whatever the file holds instead of over it.
DumpedBehind(data) == {JsonFile(file.doc \o json_dump(data))}

\* What the file holds after this writer's bytes went out from offset 0: its
\* own document when the file was still empty; when another writer's bytes
\* are already there, its own document, or garbage if those bytes reach
\* beyond it.
Dumped(data) ==
    IF file.kind = "empty"
    THEN {JsonFile(json_dump(data))}
    ELSE {JsonFile(json_dump(data)), GarbageFile}

\* store_results lines 75-77: json.dump and the close of the file.
store_dump(p, ios) ==
    /\ pc[p] = "store_dump"
    /\ \E io \in ios :
        IF io = "error"
        THEN /\ StoreFails(p, "dump_error")
             /\ file' \in {file, GarbageFile}
        ELSE /\ file' \in Dumped(existing_data[p])
             /\ storage_success' = [storage_success EXCEPT ![p] = TRUE]
             /\ store_step' = [store_step EXCEPT ![p] = "written"]
             /\ pc' = [pc EXCEPT ![p] = "mark"]
    /\ UNCHANGED <<request, uuids, i, idx, results, errors, existing_data,
                   notification_sent, response, now, file0, calls, asked,
                   notified>>

\* run_pipeline lines 141-143: every result gets the outcome of the store.
mark_stored(p) ==
    /\ pc[p] = "mark"
    /\ results' = [results EXCEPT ![p] = MarkStored(@, storage_success[p])]
    /\ pc' = [pc EXCEPT ![p] = "notify"]
    /\ UNCHANGED <<request, uuids, i, idx, errors, existing_data,
                   storage_success, notification_sent, response, file, now,
                   file0, calls, asked, notified, store_step>>

\* run_pipeline line 147: the notification.
notify(p) ==
    /\ pc[p] = "notify"
    /\ notified' = [notified EXCEPT ![p] =
           Append(@, [email |-> request[p].email,
                      success_count |-> Len(results[p]),
                      error_count |-> Len(errors[p])])]
    /\ notification_sent' = [notification_sent EXCEPT ![p] =
           send_notification(request[p].email, Len(results[p]), Len(errors[p]))]
    /\ calls' = [calls EXCEPT ![p] = Append(@, "notify")]
    /\ pc' = [pc EXCEPT ![p] = "return"]
    /\ UNCHANGED <<request, uuids, i, idx, results, errors, existing_data,
                   storage_success, response, file, now, file0, asked,
                   store_step>>

\* run_pipeline lines 152-157 and pipeline_endpoint line 175.
return_response(p) ==
    /\ pc[p] = "return"
    /\ response' = [response EXCEPT ![p] =
           [status |-> StatusOK,
            body |-> FullResponse(results[p], notification_sent[p], now, errors[p])]]
    /\ now' = now + 1
    /\ pc' = [pc EXCEPT ![p] = "done"]
    /\ UNCHANGED <<request, uuids, i, idx, results, errors, existing_data,
                   storage_success, notification_sent, file, file0, calls,
                   asked, notified, store_step>>

\* ----------------------------------------------------------- specifications

\* One request at a time, with everything the outside world can do to it.
Next == \E p \in {1} :
    \/ pipeline_endpoint(p, Emails)
    \/ fetch_one(p, UUIDs)
    \/ fetch_return(p)
    \/ classify_one(p, ClassifierAnswers)
    \/ store_read(p, IOOutcomes)
    \/ store_open(p, IOOutcomes)
    \/ store_dump(p, IOOutcomes)
    \/ mark_stored(p)
    \/ notify(p)
    \/ return_response(p)

Spec == Init /\ [][Next]_vars

\* Two requests in flight at once, each with its own identifier, a
\* classifier that answers well and a file system that raises nothing of its
\* own: what is left is the interleaving of the two threads.
NextConc == \E p \in Procs :
    \/ pipeline_endpoint(p, {"a@b.com"})
    \/ fetch_one(p, {uuidOf(p)})
    \/ fetch_return(p)
    \/ classify_one(p, {Optimistic})
    \/ store_read(p, {"ok"})
    \/ store_open(p, {"ok"})
    \/ store_dump(p, {"ok"})
    \/ mark_stored(p)
    \/ notify(p)
    \/ return_response(p)

SpecConc == Init /\ [][NextConc]_vars

\* ------------------------------------------------------------------ claims

\* An answer on which the classifier call or the parse of its result fails.
Fails(a) == a.raises \/ ~a.isjson \/ ~({"analysis", "sentiment"} \subseteq a.keys)

Done(p) == pc[p] = "done"

\* The request passed validation and fetch_uuids came back empty.
Aborted(p) == Done(p) /\ request[p].source = REQUIRED_SOURCE /\ uuids[p] = <<>>

\* The request passed validation and went through all four stages.
Completed(p) == Done(p) /\ request[p].source = REQUIRED_SOURCE /\ uuids[p] # <<>>

Items(p) == response[p].body.items

SentimentValues == {"optimistic", "pessimistic", "balanced", "neutral"}

RECURSIVE IsSubseq(_, _)
\* s can be had from t by dropping elements.
IsSubseq(s, t) ==
    IF s = <<>> THEN TRUE
    ELSE IF t = <<>> THEN FALSE
    ELSE IF Head(s) = Head(t) THEN IsSubseq(Tail(s), Tail(t))
    ELSE IsSubseq(s, Tail(t))

IsPrefix(s, t) == Len(s) <= Len(t) /\ SubSeq(t, 1, Len(s)) = s

\* The component calls of a run over n identifiers that is not aborted.
FullRun(n) == <<"fetch">> \o [k \in 1..n |-> "classify"] \o <<"store", "notify">>

\* What json.load finds in the store file at start-up.
Prior == IF file0.kind = "array" THEN json_load(file0.doc) ELSE <<>>

\* C1: when fetch_uuids returns no identifier, the response is exactly
\* {items: [], notificationSent: false, errors: ["Failed to fetch any UUIDs"]},
\* without a processedAt key, whatever the recipient.
C1_AbortResponse ==
    \A p \in Procs : Aborted(p) =>
        /\ response[p].status = StatusOK
        /\ response[p].body = [items |-> <<>>, notificationSent |-> FALSE,
                               errors |-> <<"Failed to fetch any UUIDs">>]
        /\ "processedAt" \notin DOMAIN response[p].body

C1_Witness ==
    \E p \in Procs : Aborted(p) /\ request[p].email = "a@b.com" /\ i[p] = FetchCount

C4_RoundTrip ==
    \A p \in Procs : store_step[p] = "written" =>
        /\ file.kind = "array"
        /\ json_load(file.doc) = Prior \o MarkStored(results[p], FALSE)
        /\ SubSeq(file.doc, 1, Len(file0.doc)) = file0.doc

C4_Witness ==
    \E p \in Procs :
        /\ store_step[p] = "written" /\ storage_success[p]
        /\ Len(Prior) = 2 /\ Len(results[p]) = 2

C4_WitnessMissing ==
    \E p \in Procs :
        store_step[p] = "written" /\ file0.kind = "absent" /\ Len(results[p]) = 3

Loaded == json_load(file.doc)

\* The file holds a record of request p.
HoldsRecordOf(p) == \E k \in 1..Len(Loaded) : Loaded[k].original = uuidOf(p)

\* Both store_results calls returned true, and neither had read the other's
\* records: each read before the other wrote.
BothReadFirst ==
    /\ store_step[1] = "written" /\ store_step[2] = "written"
    /\ \A p \in Procs : \A k \in 1..Len(existing_data[p]) :
          existing_data[p][k].original \in {"u0", uuidOf(p)}

\* C5: when two requests both read the store before either writes, both
\* store_results calls return true and both responses say stored = true, yet
\* the file never holds the records of both: the last write wins.
C5_LostUpdate ==
    BothReadFirst =>
        /\ \A p \in Procs : storage_success[p]
        /\ \A p \in Procs : Done(p) =>
              \A k \in 1..Len(Items(p)) : Items(p)[k].stored
        /\ ~(HoldsRecordOf(1) /\ HoldsRecordOf(2))
        /\ file.kind = "array" => Loaded \in {existing_data[q] : q \in Procs}

C5_Witness ==
    /\ BothReadFirst
    /\ \A p \in Procs :
          /\ Done(p) /\ response[p].status = StatusOK
          /\ Len(Items(p)) = 3
          /\ \A k \in 1..3 : Items(p)[k].stored
    /\ file.kind = "array"
    /\ HoldsRecordOf(2) /\ ~HoldsRecordOf(1)

\* C6: in a response that is not aborted all items carry the same stored
\* value, the one the single store_results call returned: true when the
\* append was written, false when reading or writing the store failed.
C6_StoredIsStoreOutcome ==
    \A p \in Procs : Completed(p) =>
        /\ response[p].status = StatusOK
        /\ \A k \in 1..Len(Items(p)) : Items(p)[k].stored = storage_success[p]
        /\ storage_success[p] <=> store_step[p] = "written"
        /\ store_step[p] \in {"written", "read_error", "open_error", "dump_error"}
        /\ Len(SelectSeq(calls[p], LAMBDA c : c = "store")) = 1

C6_WitnessFalse ==
    \E p \in Procs :
        /\ Completed(p) /\ Len(Items(p)) = 3
        /\ store_step[p] = "read_error" /\ file.kind = "garbage"
        /\ \A k \in 1..3 : ~Items(p)[k].stored

C6_Witness ==
    \E p \in Procs :
        /\ Completed(p) /\ Len(Items(p)) = 3
        /\ store_step[p] = "written"
        /\ \A k \in 1..3 : Items(p)[k].stored

\* C7: analyze_with_ai never raises; when the classifier call or the parse
\* of its answer fails, the result has sentiment "neutral" and an analysis
\* that starts with "Analysis unavailable: "; with three identifiers and a
\* classifier that always fails the response has three "neutral" items, no
\* errors and notificationSent true.
C7_DegradedClassification ==
    \A p \in Procs :
        /\ Len(results[p]) = Len(asked[p])
        /\ \A k \in 1..Len(asked[p]) : Fails(asked[p][k]) =>
              /\ results[p][k].sentiment = "neutral"
              /\ Head(results[p][k].analysis) = "Analysis unavailable: "
        /\ (Completed(p) /\ Len(uuids[p]) = 3
                /\ \A k \in 1..Len(asked[p]) : Fails(asked[p][k])) =>
              /\ Len(Items(p)) = 3
              /\ \A k \in 1..3 : Items(p)[k].sentiment = "neutral"
              /\ response[p].body.errors = <<>>
              /\ response[p].body.notificationSent = TRUE

C7_Witness ==
    \E p \in Procs :
        /\ Completed(p) /\ Len(uuids[p]) = 3
        /\ asked[p] = <<AuthFailure, NotJson, NoSentimentKey>>
        /\ response[p].body.notificationSent

\* C8: every item of a response and every record in the store has a
\* sentiment among "optimistic", "pessimistic", "balanced", "neutral".
C8_SentimentInSet ==
    /\ \A p \in Procs : \A k \in 1..Len(results[p]) :
          results[p][k].sentiment \in SentimentValues
    /\ file.kind = "array" =>
          \A k \in 1..Len(Loaded) : Loaded[k].sentiment \in SentimentValues

\* C9: the stages run in the order fetch, classify, persist, notify, none
\* twice: a run that is not aborted calls the classifier once per identifier,
\* then store_results once, then send_notification once with len(items) and
\* len(errors); an aborted run calls none of the three and leaves the store
\* file as it was.
C9_StageOrder ==
    \A p \in Procs :
        /\ \E n \in 0..FetchCount : IsPrefix(calls[p], FullRun(n))
        /\ Completed(p) =>
              /\ calls[p] = FullRun(Len(uuids[p]))
              /\ notified[p] = <<[email |-> request[p].email,
                                  success_count |-> Len(Items(p)),
                                  error_count |-> Len(response[p].body.errors)]>>
        /\ Aborted(p) =>
              /\ calls[p] = <<"fetch">>
              /\ asked[p] = <<>> /\ notified[p] = <<>>
              /\ store_step[p] = "none"
              /\ file = file0

C9_Witness ==
    \E p \in Procs :
        /\ Completed(p) /\ Len(uuids[p]) = 3
        /\ ~storage_success[p]
        /\ \A k \in 1..3 : Fails(asked[p][k])
        /\ Len(notified[p]) = 1

C9_WitnessAbort ==
    \E p \in Procs : Aborted(p) /\ file0.kind = "array" /\ Len(file0.doc) = 2

\* C10: every record run_pipeline writes to the store has stored = false,
\* because the flag is set after the file is written: after a successful run
\* the items of the response say stored = true, their copies in the store say
\* false, and they differ in nothing else.
C10_PersistedUnmarked ==
    /\ file.kind = "array" => \A k \in 1..Len(Loaded) : ~Loaded[k].stored
    /\ \A p \in Procs : (Completed(p) /\ storage_success[p]) =>
          /\ Len(Loaded) = Len(Prior) + Len(Items(p))
          /\ \A k \in 1..Len(Items(p)) :
                /\ Items(p)[k].stored
                /\ ~Loaded[Len(Prior) + k].stored
                /\ [Items(p)[k] EXCEPT !.stored = FALSE] = Loaded[Len(Prior) + k]

C10_Witness ==
    \E p \in Procs :
        /\ Completed(p) /\ storage_success[p]
        /\ Len(Items(p)) = 3 /\ Len(Prior) = 1

====
